---- MODULE Spec2Model ----
(***************************************************************************)
(* Model of src/py.py: build_tree, the recursive directory lister, and the *)
(* __main__ block that writes its result to file.txt.                      *)
(*                                                                         *)
(* Text is modelled as sequences of Unicode code points, so that Python's  *)
(* string comparison (code point by code point) and string concatenation   *)
(* are the sequence operations they are.  A path is the sequence of its    *)
(* components, the scanned directory first.                                *)
(***************************************************************************)
EXTENDS Naturals, Sequences, FiniteSets, TLC

---------------------------------------------------------------------------
(* Bounds of the model. *)

\* the most entries (files and directories) below the scanned directory
MaxEntries == 3
\* the most directories whose listing fails
MaxFaults == 1

---------------------------------------------------------------------------
(* Characters of the program's string literals, as code points. *)

\* '.'  (entry.startswith('.'), and the default of the directory argument)
DOT == 46
\* ' '
SPACE == 32
\* U+2514, U+2500, U+251C, U+2502: the box-drawing characters of the
\* connectors and of the continuation segment
BOX_UP_RIGHT == 9492
BOX_HORIZONTAL == 9472
BOX_VERTICAL_RIGHT == 9500
BOX_VERTICAL == 9474
\* '\n'
NEWLINE == 10

\* 'node_modules'
node_modules == <<110, 111, 100, 101, 95, 109, 111, 100, 117, 108, 101, 115>>

\* args.directory, left at its default '.'
directory == <<DOT>>

VARIABLES
    fs,         \* the file system: path -> kind
    listing,    \* the order in which directories hand out their names
    pc,         \* where __main__ is
    lines,      \* __main__'s lines
    owners,     \* for each line of build_tree's result, the path it is for
    called,     \* the paths build_tree was called on
    raised,     \* the call whose exception ended the run, or "none"
    file_txt,   \* file.txt
    file0,      \* file.txt as it was before the run
    opened,     \* whether this run opened file.txt
    console     \* what was printed

vars == <<fs, listing, pc, lines, owners, called, raised, file_txt, file0,
          opened, console>>

---------------------------------------------------------------------------
(* The file system the program runs on. *)

\* What a path names: a file, a directory that lists, a directory whose
\* listing raises PermissionError, or one whose listing raises another
\* OSError (for the scanned directory: it does not exist, or is a file).
Kinds == {"file", "dir", "denied", "broken"}

root == <<directory>>

Faults(F) == Cardinality({p \in DOMAIN F : F[p] \in {"denied", "broken"}})

\* The names in the order of their numbers: a tree is first laid out with
\* numbers for names (a path is then a sequence of numbers, the scanned
\* directory's <<>>) and then named.
NameOf ==
    << <<DOT, 115>>,
       <<78>>,
       <<97, DOT, 98>>,
       <<110, 111, 100, 101, 95, 109, 111, 100, 117, 108, 101>>,
       node_modules >>

\* p comes before q: the shorter path first, and of two of one length the
\* one with the smaller number where they first differ
Before(p, q) ==
    \/ Len(p) < Len(q)
    \/ /\ Len(p) = Len(q)
       /\ \E i \in 1..Len(p) : p[i] < q[i] /\ \A j \in 1..(i - 1) : p[j] = q[j]

\* F with one more entry, numbered from nums and of a kind of kinds, in a
\* directory of F (one that does not list may still hold entries); the
\* entries of a tree are added in the order of Before, so that a tree is
\* laid out once
Grown(F, nums, kinds) ==
    { F @@ (q :> k) :
        q \in {q \in {Append(d, n) : d \in {p \in DOMAIN F : F[p] \in {"dir", "denied"}},
                                     n \in nums} :
                   \A p \in DOMAIN F : Before(p, q)},
        k \in {k \in kinds : k \in {"denied", "broken"} => Faults(F) < MaxFaults} }

Named(q) == root \o [i \in 1..Len(q) |-> NameOf[q[i]]]

FileSystem(F) ==
    [p \in {Named(q) : q \in DOMAIN F} |-> F[CHOOSE q \in DOMAIN F : Named(q) = p]]

\* fs is F, named, or F with up to n more entries
RECURSIVE Planted(_, _, _, _)
Planted(F, n, nums, kinds) ==
    \/ fs = FileSystem(F)
    \/ /\ n > 0
       /\ \E G \in Grown(F, nums, kinds) : Planted(G, n - 1, nums, kinds)

\* The file systems of the model, each with at most MaxEntries entries:
\* those where every directory lists, with entries of any name, and those
\* where up to MaxFaults listings fail, with entries named 'N', 'a.b' or
\* 'node_modules'.
Listable == Planted(<<>> :> "dir", MaxEntries, 1..Len(NameOf), {"file", "dir"})

Failing ==
    \E k \in {"dir", "denied", "broken"} :
        Planted(<<>> :> k, MaxEntries, {2, 3, 5}, Kinds)

\* file.txt before the run: absent, or left by an earlier run
OldFiles == { [exists |-> FALSE, data |-> <<>>],
              [exists |-> TRUE, data |-> <<111, 108, 100>>] }

\* Two orders in which a directory may hand out its names, one the reverse
\* of the other: os.listdir promises none.
ListingOrders ==
    LET o == << node_modules, <<97, DOT, 98>>, <<DOT, 115>>,
                <<110, 111, 100, 101, 95, 109, 111, 100, 117, 108, 101>>,
                <<78>> >>
    IN { o, [i \in 1..Len(o) |-> o[Len(o) + 1 - i]] }

---------------------------------------------------------------------------
(* build_tree *)

\* os.listdir(path): the names in path, in the directory's order, or the
\* exception raised
listdir(path) ==
    IF fs[path] = "denied" THEN [exc |-> "PermissionError", names |-> <<>>]
    ELSE IF fs[path] # "dir" THEN [exc |-> "OSError", names |-> <<>>]
    ELSE [exc |-> "none",
          names |-> SelectSeq(listing, LAMBDA n : Append(path, n) \in DOMAIN fs)]

\* s < t for Python strings
RECURSIVE str_lt(_, _)
str_lt(s, t) ==
    IF t = <<>> THEN FALSE
    ELSE IF s = <<>> THEN TRUE
    ELSE IF s[1] # t[1] THEN s[1] < t[1]
    ELSE str_lt(Tail(s), Tail(t))

RECURSIVE insort(_, _)
insort(x, s) ==
    IF s = <<>> THEN <<x>>
    ELSE IF str_lt(x, s[1]) THEN <<x>> \o s
    ELSE <<s[1]>> \o insort(x, Tail(s))

\* sorted left out
unsorted(names) == names

\* sorted(names)
RECURSIVE sorted(_)
sorted(names) ==
    IF names = <<>> THEN <<>>
    ELSE insort(names[1], sorted(Tail(names)))

\* entry.startswith(c)
startswith(entry, c) == Len(entry) >= 1 /\ entry[1] = c

\* '.' anywhere in the name, for '.' at its start
kept_dotless(entry) ==
    (\A i \in 1..Len(entry) : entry[i] # DOT) /\ entry # node_modules

\* the test for node_modules left out
kept_but_hidden(entry) == ~startswith(entry, DOT)

\* the condition of the list comprehension
kept(entry) == ~startswith(entry, DOT) /\ entry # node_modules

\* no except clause
absorbed_none(exc) == FALSE

\* except Exception
absorbed_all(exc) == TRUE

\* except PermissionError
absorbed(exc) == exc = "PermissionError"

\* os.path.join(start_path, entry)
join(start_path, entry) == Append(start_path, entry)

\* os.path.isdir(path)
isdir(path) == fs[path] \in {"dir", "denied", "broken"}

\* index == len(entries)
is_last_past(index, entries) == index = Len(entries)

\* index == len(entries) - 1, index counting from 0
is_last_at(index, entries) == index = Len(entries) - 1

connector_of(is_last) ==
    IF is_last THEN <<BOX_UP_RIGHT, BOX_HORIZONTAL, BOX_HORIZONTAL, SPACE>>
    ELSE <<BOX_VERTICAL_RIGHT, BOX_HORIZONTAL, BOX_HORIZONTAL, SPACE>>

\* four spaces whether last or not
new_prefix_blank(prefix, is_last) == prefix \o <<SPACE, SPACE, SPACE, SPACE>>

new_prefix_of(prefix, is_last) ==
    prefix \o (IF is_last THEN <<SPACE, SPACE, SPACE, SPACE>>
               ELSE <<BOX_VERTICAL, SPACE, SPACE, SPACE>>)

\* the subtree's lines put before those already there
extend_front(output_lines, sub) == sub \o output_lines

\* output_lines.extend(sub)
extend(output_lines, sub) == output_lines \o sub

\* What a call of build_tree leaves: the exception it raised ("none": it
\* returned), its output_lines, and two records of the call that the program
\* does not keep: the path each line is for, and the paths listed.
Returned(output_lines, own, calls) ==
    [exc |-> "none", output_lines |-> output_lines, owners |-> own, called |-> calls]

Raised(exc, calls) ==
    [exc |-> exc, output_lines |-> <<>>, owners |-> <<>>, called |-> calls]

RECURSIVE build_tree(_, _), for_entries(_, _, _, _, _)

\* the for loop, from index on; acc is the call's state so far
for_entries(start_path, prefix, entries, index, acc) ==
    IF index >= Len(entries) THEN acc
    ELSE
        LET entry == entries[index + 1]
            path == join(start_path, entry)
            is_last == is_last_at(index, entries)
            connector == connector_of(is_last)
            appended == Returned(Append(acc.output_lines, prefix \o connector \o entry),
                                 Append(acc.owners, path), acc.called)
        IN  IF isdir(path)
            THEN LET sub == build_tree(path, new_prefix_of(prefix, is_last))
                 IN  IF sub.exc # "none"
                     THEN Raised(sub.exc, acc.called \cup sub.called)
                     ELSE for_entries(start_path, prefix, entries, index + 1,
                              Returned(extend(appended.output_lines, sub.output_lines),
                                       extend(appended.owners, sub.owners),
                                       acc.called \cup sub.called))
            ELSE for_entries(start_path, prefix, entries, index + 1, appended)

build_tree(start_path, prefix) ==
    LET listed == listdir(start_path)
    IN  IF listed.exc # "none"
        THEN IF absorbed(listed.exc)
             THEN Returned(<<>>, <<>>, {start_path})
             ELSE Raised(listed.exc, {start_path})
        ELSE LET entries == SelectSeq(sorted(listed.names), kept)
             IN  for_entries(start_path, prefix, entries, 0,
                             Returned(<<>>, <<>>, {start_path}))

---------------------------------------------------------------------------
(* __main__ *)

\* a '\n' after every line, the last too
RECURSIVE joined_each(_)
joined_each(ls) ==
    IF ls = <<>> THEN <<>>
    ELSE ls[1] \o <<NEWLINE>> \o joined_each(Tail(ls))

\* '\n'.join(lines)
RECURSIVE joined(_)
joined(ls) ==
    IF ls = <<>> THEN <<>>
    ELSE IF Len(ls) = 1 THEN ls[1]
    ELSE ls[1] \o <<NEWLINE>> \o joined(Tail(ls))

\* the file opened without truncating it
kept_open(file) == [exists |-> TRUE, data |-> file.data]

\* open('file.txt', 'w') on a file: it is created or truncated
truncated(file) == [exists |-> TRUE, data |-> <<>>]

\* a file opened with 'w' after data went into it
written(file, data) == [file EXCEPT !.data = file.data \o data]

\* what a write or a close that failed may have left of data in the file:
\* nothing, its first half, or all of it
Partial(data) == { <<>>, SubSeq(data, 1, Len(data) \div 2), data }

Init ==
    /\ Listable \/ Failing
    /\ listing \in ListingOrders
    /\ file0 \in OldFiles
    /\ file_txt = file0
    /\ pc = "traverse"
    /\ lines = <<>>
    /\ owners = <<>>
    /\ called = {}
    /\ raised = "none"
    /\ opened = FALSE
    /\ console = <<>>

\* lines = [args.directory]; lines += build_tree(args.directory)
Traverse ==
    /\ pc = "traverse"
    /\ LET tree == build_tree(root, <<>>)
       IN  /\ called' = tree.called
           /\ owners' = tree.owners
           /\ IF tree.exc # "none"
              THEN /\ raised' = "os.listdir"
                   /\ pc' = "aborted"
                   /\ lines' = <<directory>>
              ELSE /\ raised' = "none"
                   /\ pc' = "open"
                   /\ lines' = <<directory>> \o tree.output_lines
    /\ UNCHANGED <<fs, listing, file_txt, file0, opened, console>>

\* with open('file.txt', 'w', encoding='utf-8') as f: the file is opened
OpenFile ==
    /\ pc = "open"
    /\ \/ /\ file_txt' = truncated(file_txt)
          /\ opened' = TRUE
          /\ pc' = "write"
          /\ UNCHANGED raised
       \/ /\ raised' = "open"
          /\ pc' = "aborted"
          /\ UNCHANGED <<file_txt, opened>>
    /\ UNCHANGED <<fs, listing, lines, owners, called, file0, console>>

\* f.write('\n'.join(lines)), and the file is closed
WriteFile ==
    /\ pc = "write"
    /\ LET data == joined(lines)
       IN  \/ /\ file_txt' = written(file_txt, data)
              /\ pc' = "print"
              /\ UNCHANGED raised
           \/ /\ \E part \in Partial(data) : file_txt' = written(file_txt, part)
              /\ raised' = "f.write"
              /\ pc' = "aborted"
    /\ UNCHANGED <<fs, listing, lines, owners, called, file0, opened, console>>

\* print('Directory tree saved to file.txt')
PrintSaved ==
    /\ pc = "print"
    /\ console' = Append(console, "Directory tree saved to file.txt")
    /\ pc' = "done"
    /\ UNCHANGED <<fs, listing, lines, owners, called, raised, file_txt, file0, opened>>

Next == Traverse \/ OpenFile \/ WriteFile \/ PrintSaved

Spec == Init /\ [][Next]_vars

---------------------------------------------------------------------------
(* What the properties below speak of, read off the file system and the    *)
(* text of the lines, not off build_tree.                                  *)

\* the traversal returned: lines holds the scanned directory's line and then
\* build_tree's result, and no later step changes it
Traversed == pc \in {"open", "write", "print", "done"}
                 \/ (pc = "aborted" /\ raised # "os.listdir")

Parent(p) == SubSeq(p, 1, Len(p) - 1)

Last(s) == s[Len(s)]

\* the lines build_tree returned
Body == Tail(lines)

Lines == 1..Len(owners)

\* a name build_tree is to leave out
Excluded(name) == (Len(name) >= 1 /\ name[1] = DOT) \/ name = node_modules

Entries == DOMAIN fs \ {root}

IsUnder(p, d) == Len(p) > Len(d) /\ SubSeq(p, 1, Len(d)) = d

\* p = root, or every directory above p lists and neither p nor a directory
\* above it, below the scanned one, has an excluded name
Shown(p) ==
    /\ \A i \in 2..Len(p) : ~Excluded(p[i])
    /\ \A d \in DOMAIN fs : IsUnder(p, d) => fs[d] = "dir"

\* some directory the traversal comes to raises an error that is no
\* PermissionError
BrokenMet == \E p \in DOMAIN fs : fs[p] = "broken" /\ Shown(p)

\* s sorts before t, code point by code point
LexLess(s, t) ==
    \E i \in 1..Len(t) :
        /\ \A j \in 1..(i - 1) : j <= Len(s) /\ s[j] = t[j]
        /\ (i > Len(s) \/ (i <= Len(s) /\ s[i] < t[i]))

\* the entries of p's directory that are not excluded
KeptSiblings(p) ==
    {q \in Entries : Len(q) = Len(p) /\ Parent(q) = Parent(p) /\ ~Excluded(Last(q))}

\* p is the last of them in sorted order
IsLastKept(p) == \A q \in KeptSiblings(p) : q = p \/ LexLess(Last(q), Last(p))

\* the depth of the entry p: 0 right below the scanned directory
Depth(p) == Len(p) - 2

\* the first connector character of a line, and the name after the connector
Glyphs(line) ==
    {i \in 1..Len(line) : line[i] \in {BOX_UP_RIGHT, BOX_VERTICAL_RIGHT}}

NameIn(line) ==
    IF Glyphs(line) = {} THEN line
    ELSE LET i == CHOOSE i \in Glyphs(line) : \A j \in Glyphs(line) : i <= j
         IN  IF i + 4 > Len(line) THEN <<>> ELSE SubSeq(line, i + 4, Len(line))

TERMINAL == <<BOX_UP_RIGHT, BOX_HORIZONTAL, BOX_HORIZONTAL, SPACE>>
CONTINUATION == <<BOX_VERTICAL_RIGHT, BOX_HORIZONTAL, BOX_HORIZONTAL, SPACE>>

---------------------------------------------------------------------------
\* C1: over a tree with no hidden entry and no node_modules entry, the lines
\* build_tree returns are as many as the files and directories reachable from
\* the scanned directory by descending into the directories that list, and
\* each of them has exactly one line, which ends with its name.
NoExcludedEntries == \A p \in Entries : ~Excluded(Last(p))

Reachable == {p \in Entries : \A d \in DOMAIN fs : IsUnder(p, d) => fs[d] = "dir"}

C1_LineCount ==
    (Traversed /\ NoExcludedEntries) =>
        /\ Len(Body) = Cardinality(Reachable)
        /\ \A p \in Reachable :
               /\ Cardinality({k \in Lines : owners[k] = p}) = 1
               /\ \A k \in Lines : owners[k] = p => NameIn(Body[k]) = Last(p)

\* three lines, one of them for a directory and one for an entry in it
C1_Witness ==
    /\ Traversed /\ NoExcludedEntries
    /\ Len(Body) = 3
    /\ \E p, q \in Reachable : IsUnder(q, p)
    /\ \E p \in Reachable : fs[p] = "file"

\* C2: no line names an excluded entry (one whose name begins with '.' or is
\* node_modules), no line is for anything beneath one, and build_tree is
\* never called on one or beneath one, at any depth, file or directory.
C2_Excluded ==
    /\ Traversed =>
           /\ \A k \in Lines : \A i \in 2..Len(owners[k]) : ~Excluded(owners[k][i])
           /\ \A k \in 1..Len(Body) : ~Excluded(NameIn(Body[k]))
    /\ \A p \in called : \A i \in 2..Len(p) : ~Excluded(p[i])

\* a node_modules directory with an entry in it, inside a directory that is
\* listed
C2_Witness ==
    /\ Traversed
    /\ Len(Body) >= 1
    /\ \E p \in Entries :
           /\ Last(p) = node_modules /\ fs[p] = "dir" /\ Len(p) = 3
           /\ \E q \in Entries : IsUnder(q, p)

\* C3: the lines of the entries of one directory come in strictly increasing
\* order of name, code point by code point (so 'N' before 'a.b'), whatever
\* the order in which the directory handed out the names.
C3_Sorted ==
    Traversed =>
        \A j, k \in Lines :
            (j < k /\ Len(owners[j]) = Len(owners[k]) /\ Parent(owners[j]) = Parent(owners[k]))
                => LexLess(NameIn(Body[j]), NameIn(Body[k]))

\* three entries of the scanned directory, handed out with the name that
\* sorts first coming last
C3_Witness ==
    /\ Traversed
    /\ Len(Body) = 3
    /\ \A k \in Lines : Len(owners[k]) = 2
    /\ listing[Len(listing)] = NameIn(Body[1])

\* C4: in every directory visited, the last in sorted order of the entries
\* that are not excluded has the connector U+2514 U+2500 U+2500 ' ', and each
\* other one U+251C U+2500 U+2500 ' '; an excluded entry that sorts after
\* them all changes nothing.
C4_Connectors ==
    Traversed =>
        \A k \in Lines :
            LET at == 4 * Depth(owners[k])
            IN  /\ Len(Body[k]) >= at + 4
                /\ SubSeq(Body[k], at + 1, at + 4) =
                       (IF IsLastKept(owners[k]) THEN TERMINAL ELSE CONTINUATION)

\* two entries that are listed and after them, in sorted order, node_modules
C4_Witness ==
    /\ Traversed
    /\ \E p \in Entries :
           /\ Shown(p) /\ IsLastKept(p) /\ Cardinality(KeptSiblings(p)) = 2
           /\ \E q \in Entries :
                  /\ Parent(q) = Parent(p) /\ Last(q) = node_modules
                  /\ LexLess(Last(p), Last(q))
           /\ \E k \in Lines : owners[k] = p

\* C5: a subdirectory whose listing raises PermissionError keeps its own line
\* in its parent's output and has no line beneath it; no error comes of it,
\* and the entries after it in its directory follow, as after an empty
\* directory.
C5_DeniedSubdir ==
    (pc # "traverse" /\ ~BrokenMet) =>
        /\ raised # "os.listdir"
        /\ \A p \in Entries : (fs[p] = "denied" /\ Shown(p)) =>
               /\ p \in called
               /\ \E k \in Lines :
                      /\ owners[k] = p
                      /\ \A j \in Lines : owners[j] = p => j = k
                      /\ \A q \in KeptSiblings(p) :
                             LexLess(Last(p), Last(q)) => \E j \in Lines : j > k /\ owners[j] = q
               /\ \A j \in Lines : ~IsUnder(owners[j], p)

\* a directory that refuses its listing, with an entry in it and a sibling
\* after it
C5_Witness ==
    /\ pc = "done"
    /\ \E p \in Entries :
           /\ fs[p] = "denied" /\ Shown(p)
           /\ \E q \in Entries : IsUnder(q, p) /\ ~Excluded(Last(q))
           /\ \E q \in KeptSiblings(p) : LexLess(Last(p), Last(q))

\* C6: the lines of the entries beneath a directory, all that are not
\* excluded, stand in one block right after the directory's own line: none
\* before it, and no line of another subtree among them.
C6_Contiguous ==
    Traversed =>
        /\ \A k, j \in Lines :
               IsUnder(owners[j], owners[k]) =>
                   /\ k < j
                   /\ \A i \in (k + 1)..j : IsUnder(owners[i], owners[k])
        /\ \A p \in Entries : Shown(p) => \E k \in Lines : owners[k] = p

\* a directory with an entry in it, and a line after that entry's
C6_Witness ==
    /\ Traversed
    /\ \E k, j, i \in Lines :
           /\ IsUnder(owners[j], owners[k])
           /\ j < i
           /\ ~IsUnder(owners[i], owners[k])

\* C7: before its connector, the line of an entry at depth d has d segments
\* of four characters, one for each directory above it below the scanned
\* one, from the top down: four spaces where that directory was the last of
\* its directory's listed entries, U+2502 and three spaces where it was not;
\* the connector and the entry's name are the rest of the line.
Segments(p) ==
    [i \in 1..(4 * Depth(p)) |->
        IF (i - 1) % 4 = 0 /\ ~IsLastKept(SubSeq(p, 1, 2 + ((i - 1) \div 4)))
        THEN BOX_VERTICAL
        ELSE SPACE]

C8_OtherErrorAborts ==
    (pc # "traverse" /\ BrokenMet) =>
        /\ pc = "aborted"
        /\ raised = "os.listdir"
        /\ ~opened
        /\ file_txt = file0
        /\ console = <<>>

\* the failing directory is below the scanned one, after an entry already
\* listed, and file.txt existed
C8_Witness ==
    /\ pc = "aborted" /\ raised = "os.listdir"
    /\ file0.exists
    /\ \E p \in Entries :
           /\ fs[p] = "broken" /\ Shown(p)
           /\ \E q \in KeptSiblings(p) : LexLess(Last(q), Last(p))

\* C9 as claimed: a run that fails to create or to write file.txt leaves no
\* file of its own behind, so file.txt is as it was before the run.
C9_NoFileAfterFailedWrite ==
    (pc = "aborted" /\ raised \in {"open", "f.write"}) => file_txt = file0

\* C9 as amended: a run that fails to open file.txt leaves it as it was; a
\* run that fails in writing it, after opening it, leaves file.txt behind,
\* created or emptied by the open and holding a prefix of the output, which
\* may be empty or incomplete; in both cases nothing is printed.
C9_FailedWriteLeavesTruncated ==
    /\ (pc = "aborted" /\ raised = "open") => (file_txt = file0 /\ console = <<>>)
    /\ (pc = "aborted" /\ raised = "f.write") =>
           /\ file_txt.exists
           /\ Len(file_txt.data) <= Len(joined(lines))
           /\ file_txt.data = SubSeq(joined(lines), 1, Len(file_txt.data))
           /\ console = <<>>

\* the write failed where no file.txt was, and an empty one is there now
C9_Witness ==
    /\ pc = "aborted" /\ raised = "f.write"
    /\ ~file0.exists
    /\ file_txt = [exists |-> TRUE, data |-> <<>>]
    /\ Len(lines) > 1

\* C10: when the scanned directory itself refuses its listing, build_tree
\* returns no line and no error comes of it; the run can only fail at the
\* file, and a run that ends has put exactly the scanned directory's path in
\* file.txt and printed the message, as a run over an empty directory has.
C10_RootDenied ==
    ((fs[root] = "denied" \/ (fs[root] = "dir" /\ Entries = {})) /\ pc # "traverse") =>
        /\ raised # "os.listdir"
        /\ lines = <<directory>>
        /\ pc = "done" =>
               /\ file_txt = [exists |-> TRUE, data |-> directory]
               /\ console = <<"Directory tree saved to file.txt">>

\* the run is over; the directory that refused has entries, and file.txt
\* existed
C10_Witness ==
    /\ pc = "done"
    /\ fs[root] = "denied"
    /\ Entries # {}
    /\ file0.exists

====
